---- MODULE Spec2Model ----
(***************************************************************************)
(* Trello due-date monitor (trello.py) and its web UI (app.py).            *)
(*                                                                         *)
(* The monitor polls the board, compares every card's due date with the    *)
(* one stored in cards_due.db, stores the new one, and logs a reminder,    *)
(* marked read at once when a comment was posted after the change.  The    *)
(* web process reads the same database and marks reminders read.           *)
(*                                                                         *)
(* One step of the model is one database transaction or one request to     *)
(* the Trello API: these are the points at which the other process can     *)
(* see or change the database.                                             *)
(***************************************************************************)
EXTENDS Integers, Sequences, FiniteSets, TLC

\* ------------------------------------------------------------------ bounds

\* Instants are whole seconds 0..MaxTime, on the clock and in Trello's data.
MaxTime == 1

\* Rows the reminders table can hold.
MaxReminders == 2

\* ------------------------------------------------------------------ values

CardIds == {"c1", "c2"}

\* The board's cards in the order the API lists them.
BoardOrder == <<"c1", "c2">>

CommentIds == {"m1", "m2"}

\* Python's None / SQL NULL for a due date.
None == "None"

\* The due-date strings Trello returns.
DueDates == {"d1", "d2"}

DueOrNone == DueDates \cup {None}

\* A timestamp string, by its format and the clock reading it spells:
\*   "Z"      Trello's ISO form with the UTC marker, 2024-06-01T10:00:00.000Z
\*   "naive"  datetime.now().isoformat(), local time without an offset
\*   "bad"    a string datetime.fromisoformat rejects; t = 0 spells one that
\*            sorts before every ISO string, t = 1 one that sorts after
\*   "none"   None / NULL
NoTs == [fmt |-> "none", t |-> 0]

Z(t) == [fmt |-> "Z", t |-> t]

Naive(t) == [fmt |-> "naive", t |-> t]

Bad(k) == [fmt |-> "bad", t |-> k]

Times == 0 .. MaxTime

\* What the Trello API can put in an action's "date".
TrelloDates == {Z(t) : t \in Times} \cup {Bad(0), Bad(1)}

\* The names a card can be given.
Names == {"n1", "n2"}

\* The world the two processes run in: the cards of the board, the names and
\* due dates their users give them, the comments they post, the "date"
\* strings the API returns, and the hours the host's local time is ahead of UTC
\* (datetime.now() is local; SQLite's CURRENT_TIMESTAMP and Trello are UTC).
\* A behaviour stays in one world; each specification fixes one in Init.

\* One card, one comment, a host on UTC.
SmallWorld ==
    [board |-> {"c1"}, names |-> {"n1"}, dues |-> DueDates,
     comment_ids |-> {"m1"},
     dates |-> {Z(t) : t \in Times} \cup {Bad(1)}, offsets |-> {0}]

\* Two cards, one comment.
BoardWorld ==
    [board |-> CardIds, names |-> {"n1"}, dues |-> DueDates,
     comment_ids |-> {"m1"},
     dates |-> {Z(t) : t \in Times} \cup {Bad(1)}, offsets |-> {0}]

\* One card, two comments, every date string, a host ahead of UTC or on it.
RichWorld ==
    [board |-> {"c1"}, names |-> {"n1"}, dues |-> DueDates,
     comment_ids |-> CommentIds,
     dates |-> TrelloDates, offsets |-> {0, 1}]

\* One card whose users rename it, one comment.
WebWorld ==
    [board |-> {"c1"}, names |-> Names, dues |-> DueDates,
     comment_ids |-> {"m1"},
     dates |-> {Z(t) : t \in Times} \cup {Bad(1)}, offsets |-> {0}]

\* One card whose due date is reported in two spellings: "d1b" is another
\* string for the instant "d1" names (another offset, other zeros).
DriftWorld ==
    [board |-> {"c1"}, names |-> {"n1"}, dues |-> {"d1", "d1b"},
     comment_ids |-> {"m1"},
     dates |-> {Z(t) : t \in Times} \cup {Bad(1)}, offsets |-> {0}]

\* Two cards, one comment, well-formed dates only.
FaultWorld ==
    [board |-> CardIds, names |-> {"n1"}, dues |-> DueDates,
     comment_ids |-> {"m1"},
     dates |-> {Z(t) : t \in Times}, offsets |-> {0}]

\* ------------------------------------------------------------------ state

VARIABLES
    world,          \* the world, fixed in Init
    now,            \* the UTC wall clock, in seconds
    card_due,       \* table card_due: card_id -> row
    reminders,      \* table reminders: row i has id i
    card_comments,  \* table card_comments: comment_id -> row
    pc,             \* where the monitor is
    cards,          \* check_cards: the cards of the snapshot still to visit
    card_id,        \* check_cards: the card being processed
    card_name,      \* check_cards: its name in the snapshot
    current_due,    \* check_cards: its due date in the snapshot
    stored_due,     \* check_cards: its due date in the database
    suppress,       \* send_reminder: has_comment_after_due_date_change's answer
    fetched,        \* get_card_comments: the comments the API returned
    trello_change_time, \* update_stored_due_date: the change-history lookup's answer
    response,       \* the web process's last answer to a mark-read request
    tests           \* a run of test_trello_connection.py, and what it meets

vars == <<world, now, card_due, reminders, card_comments, pc, cards, card_id, card_name,
          current_due, stored_due, suppress, fetched, trello_change_time,
          response, tests>>

\* test_trello_connection.py is not being run.
NoTests ==
    [key |-> FALSE, token |-> FALSE, board_id |-> FALSE, key_valid |-> FALSE,
     board_visible |-> FALSE, actions |-> "none", pc |-> "off",
     connection_ok |-> FALSE, board_ok |-> FALSE, activity_ok |-> FALSE,
     calls |-> <<>>, log |-> "", returned |-> FALSE]

\* No row of card_due for the card.
NoCard == [present |-> FALSE, name |-> "", due_date |-> None,
           updated_at |-> NoTs]

\* No row of card_comments for the comment.
NoComment == [present |-> FALSE, card_id |-> "", created_at |-> NoTs,
              suppressed_notification |-> FALSE]

NoResponse == [id |-> 0, success |-> FALSE]

\* get_card_comments' result: ok is FALSE when the request failed, and dates
\* maps each comment the API returned to its "date".
NoFetch == [ok |-> FALSE, dates |-> <<>>]

\* ------------------------------------------------------- timestamp helpers

\* A fromisoformat that accepts every string.
parse_naive_lenient(ts) == [ok |-> ts.fmt # "none", t |-> ts.t]

\* datetime.fromisoformat on the string, 'Z' replaced by '+00:00', and the
\* tzinfo dropped: ok is FALSE when fromisoformat raises.
parse_naive(ts) == [ok |-> ts.fmt \in {"Z", "naive"}, t |-> ts.t]

\* Python's truth value of a timestamp string or None.
truthy(ts) == ts.fmt # "none"

\* The rank of a "date" string in Python's string order: ISO strings of one
\* format sort by instant, Bad(0) sorts before them and Bad(1) after.
str_rank(ts) == IF ts.fmt = "bad" THEN (IF ts.t = 0 THEN -1 ELSE MaxTime + 2)
                ELSE ts.t

\* comment_dt >= due_date_dt.
dt_after_or_equal(comment_ts, due_ts) ==
    /\ parse_naive(comment_ts).ok
    /\ parse_naive(due_ts).ok
    /\ parse_naive(comment_ts).t >= parse_naive(due_ts).t

\* comment_dt > due_date_dt of two strings, FALSE when either does not parse
\* (the except branches).
dt_after(comment_ts, due_ts) ==
    /\ parse_naive(comment_ts).ok
    /\ parse_naive(due_ts).ok
    /\ parse_naive(comment_ts).t > parse_naive(due_ts).t

\* ---------------------------------------------------------- the database

get_stored_due_date(c) ==
    IF card_due[c].present
    THEN [due_date |-> card_due[c].due_date, updated_at |-> card_due[c].updated_at]
    ELSE [due_date |-> None, updated_at |-> NoTs]

\* INSERT INTO reminders: created_at and is_read take their defaults.
new_reminder(c, name, old_due, new_due) ==
    [card_id |-> c, card_name |-> name, old_due |-> old_due, new_due |-> new_due,
     created_at |-> now, is_read |-> FALSE]

\* An UPDATE that stamps the row as well.
set_read_touch(rows, id) ==
    [i \in DOMAIN rows |->
        IF i = id THEN [rows[i] EXCEPT !.is_read = TRUE, !.created_at = now]
                  ELSE rows[i]]

\* An UPDATE that flips is_read.
set_read_toggle(rows, id) ==
    [i \in DOMAIN rows |->
        IF i = id THEN [rows[i] EXCEPT !.is_read = ~rows[i].is_read]
                  ELSE rows[i]]

\* UPDATE reminders SET is_read = 1 WHERE id = ?
set_read(rows, id) ==
    [i \in DOMAIN rows |-> IF i = id THEN [rows[i] EXCEPT !.is_read = TRUE]
                                     ELSE rows[i]]

\* ------------------------------------------------------------ the monitor

\* An if-chain without the "elif current_due != stored_due" arm.
Classify_NoChangedArm(stored, current) ==
    IF current = None /\ stored = None THEN "none"
    ELSE IF current = None /\ stored # None THEN "removed"
    ELSE IF stored = None /\ current # None THEN "set"
    ELSE "same"

\* An if-chain whose last arm stores the due date again.
Classify_NoSameArm(stored, current) ==
    IF current = None /\ stored = None THEN "none"
    ELSE IF current = None /\ stored # None THEN "removed"
    ELSE IF stored = None /\ current # None THEN "set"
    ELSE "changed"

\* The arm of check_cards' if-chain taken for a card.
Classify(stored, current) ==
    IF current = None /\ stored = None THEN "none"
    ELSE IF current = None /\ stored # None THEN "removed"
    ELSE IF stored = None /\ current # None THEN "set"
    ELSE IF current # stored THEN "changed"
    ELSE "same"

\* Whether update_stored_due_date goes on to send_reminder.
sends_reminder(old_due, new_due) == old_due # None /\ old_due # new_due

ResetLocals ==
    /\ card_id' = ""
    /\ card_name' = ""
    /\ current_due' = None
    /\ stored_due' = None
    /\ suppress' = FALSE
    /\ fetched' = NoFetch
    /\ trello_change_time' = NoTs

\* The monitor returns to the head of check_cards' loop.
NextIteration ==
    /\ pc' = "loop"
    /\ ResetLocals

\* The state after init_db on a new database, in world w.
InitIn(w) ==
    /\ world = w
    /\ now = 0
    /\ card_due = [c \in CardIds |-> NoCard]
    /\ reminders = <<>>
    /\ card_comments = [m \in CommentIds |-> NoComment]
    /\ pc = "fetch"
    /\ cards = <<>>
    /\ card_id = ""
    /\ card_name = ""
    /\ current_due = None
    /\ stored_due = None
    /\ suppress = FALSE
    /\ fetched = NoFetch
    /\ trello_change_time = NoTs
    /\ response = NoResponse
    /\ tests = NoTests

Init == InitIn(SmallWorld)

InitBoard == InitIn(BoardWorld)

InitRich == InitIn(RichWorld)

InitFaulty == InitIn(FaultWorld)

InitWeb == InitIn(WebWorld)

InitDrift == InitIn(DriftWorld)

\* The clock moves on.
Tick ==
    /\ now < MaxTime
    /\ now' = now + 1
    /\ UNCHANGED <<world, tests, card_due, reminders, card_comments, pc, cards,
                   card_id, card_name, current_due, stored_due, suppress, fetched,
                   trello_change_time, response>>

\* A get_trello_cards whose failure is taken for an empty board and clears
\* the rows of the cards that are gone.
get_trello_cards_clears ==
    /\ pc = "fetch"
    /\ \E ok \in BOOLEAN, listed \in SUBSET world.board :
          /\ cards' = IF ok THEN SelectSeq(BoardOrder, LAMBDA c : c \in listed)
                            ELSE <<>>
          /\ card_due' = IF ok THEN card_due ELSE [c \in CardIds |-> NoCard]
    /\ pc' = "loop"
    /\ UNCHANGED <<world, tests, now, reminders, card_comments, card_id, card_name,
                   current_due, stored_due, suppress, fetched,
                   trello_change_time, response>>

\* check_cards' call of get_trello_cards: the board's cards, or no card when
\* the credentials are missing or a request fails.
get_trello_cards ==
    /\ pc = "fetch"
    /\ \E ok \in BOOLEAN, listed \in SUBSET world.board :
          cards' = IF ok THEN SelectSeq(BoardOrder, LAMBDA c : c \in listed)
                         ELSE <<>>
    /\ pc' = "loop"
    /\ UNCHANGED <<world, tests, now, card_due, reminders, card_comments, card_id, card_name,
                   current_due, stored_due, suppress, fetched,
                   trello_change_time, response>>

\* The loop is over: time.sleep, and main calls check_cards again.
Sleep ==
    /\ pc = "loop"
    /\ cards = <<>>
    /\ pc' = "fetch"
    /\ UNCHANGED <<world, tests, now, card_due, reminders, card_comments, cards, card_id, card_name,
                   current_due, stored_due, suppress, fetched,
                   trello_change_time, response>>

\* The head of the loop body: the card's fields and its stored due date.
\* The ledger's bound: a change that is to be logged is observed only while
\* the table has room.
ReadCard ==
    /\ pc = "loop"
    /\ cards # <<>>
    /\ \E due \in world.dues \cup {None}, name \in world.names :
          LET c == Head(cards)
              stored == get_stored_due_date(c).due_date
          IN /\ sends_reminder(stored, due) => Len(reminders) < MaxReminders
             /\ card_id' = c
             /\ card_name' = name
             /\ current_due' = due
             /\ stored_due' = stored
    /\ cards' = Tail(cards)
    /\ pc' = "branch"
    /\ UNCHANGED <<world, tests, now, card_due, reminders, card_comments, suppress, fetched,
                   trello_change_time, response>>

\* An update_stored_due_date that lets a failed lookup's exception escape:
\* check_cards is left, main sleeps and starts the next cycle.
update_stored_due_date_raises(c, name, new_due_date, old_due_date) ==
    \E found \in world.dates \cup {NoTs} :
        IF truthy(found)
        THEN /\ card_due' = [card_due EXCEPT ![c] =
                    [present |-> TRUE, name |-> name,
                     due_date |-> new_due_date, updated_at |-> found]]
             /\ IF sends_reminder(old_due_date, new_due_date)
                THEN /\ pc' = "comments"
                     /\ trello_change_time' = found
                     /\ UNCHANGED <<card_id, card_name, current_due,
                                    stored_due, suppress, fetched>>
                ELSE NextIteration
             /\ UNCHANGED <<world, tests, now, reminders, card_comments, cards,
                            response>>
        ELSE /\ pc' = "fetch"
             /\ cards' = <<>>
             /\ ResetLocals
             /\ UNCHANGED <<world, tests, now, card_due, reminders, card_comments,
                            response>>

\* An update_stored_due_date without line 184's fallback: what the lookup
\* answered is stored, None included.
update_stored_due_date_no_fallback(c, name, new_due_date, old_due_date) ==
    /\ \E found \in world.dates \cup {NoTs} :
          /\ card_due' = [card_due EXCEPT ![c] =
                 [present |-> TRUE, name |-> name,
                  due_date |-> new_due_date,
                  updated_at |-> found]]
          /\ IF sends_reminder(old_due_date, new_due_date)
             THEN /\ pc' = "comments"
                  /\ trello_change_time' = found
                  /\ UNCHANGED <<card_id, card_name, current_due, stored_due, suppress,
                                 fetched>>
             ELSE NextIteration
    /\ UNCHANGED <<world, tests, now, reminders, card_comments, cards, response>>

\* update_stored_due_date up to its commit: the change time Trello recorded,
\* or the local clock when the lookup fails or finds no due-date action, is
\* stored with the new due date; then send_reminder for a change.
update_stored_due_date(c, name, new_due_date, old_due_date) ==
    /\ \E found \in world.dates \cup {NoTs}, off \in world.offsets :
          LET timestamp == IF truthy(found) THEN found ELSE Naive(now + off)
          IN /\ card_due' = [card_due EXCEPT ![c] =
                    [present |-> TRUE, name |-> name,
                     due_date |-> new_due_date,
                     updated_at |-> timestamp]]
             /\ IF sends_reminder(old_due_date, new_due_date)
                THEN /\ pc' = "comments"
                     /\ trello_change_time' = found
                     /\ UNCHANGED <<card_id, card_name, current_due, stored_due, suppress,
                                    fetched>>
                ELSE NextIteration
    /\ UNCHANGED <<world, tests, now, reminders, card_comments, cards, response>>

\* What update_stored_due_date returns to check_cards when the lookup
\* answered found: the function has no return statement, and its timestamp
\* and trello_change_time are locals that end with it.
update_stored_due_date_returns(found) == None

\* if current_due is None and stored_due is None: pass
NoDueDate ==
    /\ pc = "branch"
    /\ Classify(stored_due, current_due) = "none"
    /\ NextIteration
    /\ UNCHANGED <<world, tests, now, card_due, reminders, card_comments, cards, response>>

\* elif current_due is None and stored_due is not None
DueRemoved ==
    /\ pc = "branch"
    /\ Classify(stored_due, current_due) = "removed"
    /\ update_stored_due_date(card_id, card_name, None, stored_due)

\* elif stored_due is None and current_due is not None
DueSet ==
    /\ pc = "branch"
    /\ Classify(stored_due, current_due) = "set"
    /\ update_stored_due_date(card_id, card_name, current_due, None)

\* elif current_due != stored_due
DueChanged ==
    /\ pc = "branch"
    /\ Classify(stored_due, current_due) = "changed"
    /\ update_stored_due_date(card_id, card_name, current_due, stored_due)

\* else: UPDATE card_due SET name = ? (the row's other columns stay)
NameRefresh ==
    /\ pc = "branch"
    /\ Classify(stored_due, current_due) = "same"
    /\ card_due' = IF card_due[card_id].present
                   THEN [card_due EXCEPT ![card_id].name = card_name]
                   ELSE card_due
    /\ NextIteration
    /\ UNCHANGED <<world, tests, now, reminders, card_comments, cards, response>>


\* The comments the API can return for card c: each id at most once, a
\* comment stays on its card and keeps its date.
CommentLists ==
    UNION {[ids -> world.dates] : ids \in SUBSET world.comment_ids}

consistent(c, dates) ==
    \A m \in DOMAIN dates :
        card_comments[m].present =>
            /\ card_comments[m].card_id = c
            /\ card_comments[m].created_at = dates[m]

\* get_card_comments' loop: INSERT OR REPLACE of every returned comment, its
\* suppressed_notification computed against the stored change time.
store_comments(c, dates, due_date_changed_at) ==
    [m \in CommentIds |->
        IF m \in DOMAIN dates
        THEN [present |-> TRUE, card_id |-> c, created_at |-> dates[m],
              suppressed_notification |->
                  /\ truthy(due_date_changed_at)
                  /\ dt_after(dates[m], due_date_changed_at)]
        ELSE card_comments[m]]

\* A loop that keeps the least "date" in string order.
latest_timestamp_least(dates) ==
    IF DOMAIN dates = {} THEN NoTs
    ELSE LET m == CHOOSE m \in DOMAIN dates :
                     \A k \in DOMAIN dates : str_rank(dates[m]) <= str_rank(dates[k])
         IN dates[m]

\* get_card_comments' return value: the greatest "date" in string order,
\* None for no comment.
latest_timestamp(dates) ==
    IF DOMAIN dates = {} THEN NoTs
    ELSE LET m == CHOOSE m \in DOMAIN dates :
                     \A k \in DOMAIN dates : str_rank(dates[k]) <= str_rank(dates[m])
         IN dates[m]

\* has_comment_after_due_date_change's answer from the stored change time
\* and get_card_comments' result.
comment_after(due_date_updated_at, latest_comment_timestamp) ==
    /\ truthy(due_date_updated_at)
    /\ truthy(latest_comment_timestamp)
    /\ dt_after(latest_comment_timestamp, due_date_updated_at)

\* A has_comment_after_due_date_change that answers from table card_comments:
\* the fetch refreshes the table when it succeeds, and the rows of the card,
\* those of earlier cycles included, decide.
has_comment_after_due_date_change_stored ==
    /\ pc = "comments"
    /\ LET due_date_updated_at == get_stored_due_date(card_id).updated_at
       IN /\ \/ /\ fetched' = NoFetch
                /\ UNCHANGED card_comments
             \/ \E dates \in CommentLists :
                   /\ consistent(card_id, dates)
                   /\ fetched' = [ok |-> TRUE, dates |-> dates]
                   /\ card_comments' =
                          store_comments(card_id, dates, due_date_updated_at)
          /\ suppress' = \E m \in CommentIds :
                             /\ card_comments'[m].present
                             /\ card_comments'[m].card_id = card_id
                             /\ comment_after(due_date_updated_at,
                                              card_comments'[m].created_at)
    /\ pc' = "add"
    /\ UNCHANGED <<world, tests, now, card_due, reminders, cards, card_id, card_name, current_due,
                   stored_due, trello_change_time, response>>

\* send_reminder's call of has_comment_after_due_date_change: the comments
\* are fetched and stored, or the request fails and nothing is stored.
has_comment_after_due_date_change ==
    /\ pc = "comments"
    /\ LET due_date_updated_at == get_stored_due_date(card_id).updated_at
       IN IF ~truthy(due_date_updated_at)
          THEN /\ suppress' = FALSE
               /\ UNCHANGED <<card_comments, fetched>>
          ELSE \/ /\ fetched' = NoFetch
                  /\ suppress' = FALSE
                  /\ UNCHANGED card_comments
               \/ \E dates \in CommentLists :
                     /\ consistent(card_id, dates)
                     /\ fetched' = [ok |-> TRUE, dates |-> dates]
                     /\ card_comments' =
                            store_comments(card_id, dates, due_date_updated_at)
                     /\ suppress' = comment_after(due_date_updated_at,
                                                  latest_timestamp(dates))
    /\ pc' = "add"
    /\ UNCHANGED <<world, tests, now, card_due, reminders, cards, card_id, card_name, current_due,
                   stored_due, trello_change_time, response>>

\* add_reminder, on either path of send_reminder.
add_reminder ==
    /\ pc = "add"
    /\ reminders' = Append(reminders,
                           new_reminder(card_id, card_name, stored_due, current_due))
    /\ IF suppress
       THEN /\ pc' = "mark"
            /\ UNCHANGED <<card_id, card_name, current_due, stored_due, suppress, fetched,
                           trello_change_time>>
       ELSE NextIteration
    /\ UNCHANGED <<world, tests, now, card_due, card_comments, cards, response>>

\* SELECT id FROM reminders WHERE card_id = ? AND is_read = 0
\* ORDER BY created_at DESC LIMIT 1: any row with the greatest created_at.
newest_unread(c) ==
    {i \in DOMAIN reminders :
        /\ reminders[i].card_id = c
        /\ ~reminders[i].is_read
        /\ \A j \in DOMAIN reminders :
              (reminders[j].card_id = c /\ ~reminders[j].is_read)
                  => reminders[j].created_at <= reminders[i].created_at}

\* send_reminder's suppressed path after add_reminder: the row the SELECT
\* returns is marked read.
mark_suppressed ==
    /\ pc = "mark"
    /\ IF newest_unread(card_id) = {}
       THEN UNCHANGED reminders
       ELSE \E reminder_id \in newest_unread(card_id) :
               reminders' = set_read(reminders, reminder_id)
    /\ NextIteration
    /\ UNCHANGED <<world, tests, now, card_due, card_comments, cards, response>>

\* A fault that main does not catch: the exception ends the monitor.
storage_fault_exits ==
    /\ \/ pc = "loop" /\ cards # <<>>
       \/ pc = "branch" /\ Classify(stored_due, current_due) # "none"
       \/ pc \in {"comments", "add", "mark"}
    /\ pc' = "exit"
    /\ cards' = <<>>
    /\ ResetLocals
    /\ UNCHANGED <<world, tests, now, card_due, reminders, card_comments, response>>

\* A sqlite3 call of check_cards raises (the database is locked by the other
\* process, the disk is full): at the head of the loop body, in the arm of the
\* if-chain, or in send_reminder.  Nothing of the failed transaction is
\* stored; the exception leaves check_cards, main logs it, sleeps and calls
\* check_cards again.
storage_fault ==
    /\ \/ pc = "loop" /\ cards # <<>>
       \/ pc = "branch" /\ Classify(stored_due, current_due) # "none"
       \/ pc \in {"comments", "add", "mark"}
    /\ pc' = "fetch"
    /\ cards' = <<>>
    /\ ResetLocals
    /\ UNCHANGED <<world, tests, now, card_due, reminders, card_comments, response>>

\* ------------------------------------------- test_trello_connection.py

\* What the recent actions of the board can be: none, actions that change no
\* due date, actions with a due-date change among them.
BoardActions == {"none", "plain", "due"}

\* python test_trello_connection.py is started: TRELLO_API_KEY, TRELLO_TOKEN
\* and TRELLO_BOARD_ID are set in .env or not, Trello accepts the key and
\* token or not, shows the board to them or not, and the board has its
\* recent actions.  The monitor's database is new and stays so.
InitTests ==
    /\ world = SmallWorld
    /\ now = 0
    /\ card_due = [c \in CardIds |-> NoCard]
    /\ reminders = <<>>
    /\ card_comments = [m \in CommentIds |-> NoComment]
    /\ pc = "fetch"
    /\ cards = <<>>
    /\ card_id = ""
    /\ card_name = ""
    /\ current_due = None
    /\ stored_due = None
    /\ suppress = FALSE
    /\ fetched = NoFetch
    /\ trello_change_time = NoTs
    /\ response = NoResponse
    /\ \E key, token, board_id, key_valid, board_visible \in BOOLEAN,
          actions \in BoardActions :
          tests = [NoTests EXCEPT !.key = key, !.token = token,
                                  !.board_id = board_id,
                                  !.key_valid = key_valid,
                                  !.board_visible = board_visible,
                                  !.actions = actions,
                                  !.pc = "connection"]

\* What the monitor and the web process own.
app_vars == <<world, now, card_due, reminders, card_comments, pc, cards, card_id,
              card_name, current_due, stored_due, suppress, fetched,
              trello_change_time, response>>

\* The values test_trello_connection can return: False without a key or a
\* token and when the request raises (Trello rejects them, the network
\* fails), True when GET /members/me answers.
connection_results ==
    IF tests.key /\ tests.token /\ tests.key_valid THEN BOOLEAN ELSE {FALSE}

\* The values test_board_access can return: False without a board id and
\* when the request raises, True when GET /boards/<id> answers.
board_results ==
    IF tests.board_id /\ tests.board_visible THEN BOOLEAN ELSE {FALSE}

\* A run_all_tests that goes on to the board-activity check after a failed
\* board-access check.
test_board_access_goes_on ==
    /\ tests.pc = "board"
    /\ \E board_ok \in board_results :
          tests' = [tests EXCEPT
                       !.board_ok = board_ok,
                       !.calls = Append(@, "test_board_access"),
                       !.pc = "activity"]
    /\ UNCHANGED app_vars

\* run_all_tests up to its first return: connection_ok = test_trello_connection()
\* and, if not connection_ok, return False.
test_trello_connection ==
    /\ tests.pc = "connection"
    /\ \E connection_ok \in connection_results :
          tests' = [tests EXCEPT
                       !.connection_ok = connection_ok,
                       !.calls = Append(@, "test_trello_connection"),
                       !.pc = IF connection_ok THEN "board" ELSE "done",
                       !.returned = FALSE]
    /\ UNCHANGED app_vars

\* board_ok = test_board_access() and, if not board_ok, return False.
test_board_access ==
    /\ tests.pc = "board"
    /\ \E board_ok \in board_results :
          tests' = [tests EXCEPT
                       !.board_ok = board_ok,
                       !.calls = Append(@, "test_board_access"),
                       !.pc = IF board_ok THEN "activity" ELSE "done",
                       !.returned = FALSE]
    /\ UNCHANGED app_vars

\* activity_ok = test_board_activity() and run_all_tests' last if: the
\* request raises (False) or answers (True, whatever the actions are; the
\* log tells what was found), and all three results decide the return value.
test_board_activity ==
    /\ tests.pc = "activity"
    /\ \E activity_ok \in BOOLEAN :
          tests' = [tests EXCEPT
                       !.activity_ok = activity_ok,
                       !.calls = Append(@, "test_board_activity"),
                       !.log = IF activity_ok THEN tests.actions ELSE "failed",
                       !.pc = "done",
                       !.returned = /\ tests.connection_ok
                                    /\ tests.board_ok
                                    /\ activity_ok]
    /\ UNCHANGED app_vars

\* ------------------------------------------------------- the web process

ReminderIds == 1 .. MaxReminders

\* POST /api/mark-read/<id>: mark_reminder_as_read and {'success': True}.
api_mark_read ==
    /\ \E reminder_id \in ReminderIds :
          /\ reminders' = set_read(reminders, reminder_id)
          /\ response' = [id |-> reminder_id, success |-> TRUE]
    /\ UNCHANGED <<world, tests, now, card_due, card_comments, pc, cards, card_id, card_name,
                   current_due, stored_due, suppress, fetched,
                   trello_change_time>>

\* A sync that also copies the card's due date into card_due, as the upsert
\* of the web process's own cards table does.
update_cards_database_due ==
    /\ \E ok \in BOOLEAN, listed \in SUBSET world.board,
          name \in [world.board -> world.names],
          due \in [world.board -> world.dues \cup {None}] :
          card_due' = [c \in CardIds |->
                          IF ok /\ c \in listed /\ card_due[c].present
                          THEN [card_due[c] EXCEPT !.name = name[c],
                                                   !.due_date = due[c]]
                          ELSE card_due[c]]
    /\ UNCHANGED <<world, tests, now, reminders, card_comments, pc, cards, card_id,
                   card_name, current_due, stored_due, suppress, fetched,
                   trello_change_time, response>>

\* GET / and POST /sync: update_cards_database.  The board's cards are
\* fetched (no card when the request fails) and, for each, the web process's
\* own cards table is written and UPDATE card_due SET name = ? WHERE
\* card_id = ? is committed: a row of card_due that exists takes the card's
\* name, no row is made.
update_cards_database ==
    /\ \E ok \in BOOLEAN, listed \in SUBSET world.board,
          name \in [world.board -> world.names] :
          card_due' = [c \in CardIds |->
                          IF ok /\ c \in listed /\ card_due[c].present
                          THEN [card_due[c] EXCEPT !.name = name[c]]
                          ELSE card_due[c]]
    /\ UNCHANGED <<world, tests, now, reminders, card_comments, pc, cards, card_id,
                   card_name, current_due, stored_due, suppress, fetched,
                   trello_change_time, response>>

\* GET /api/card/<id>/notification-status: notifications_muted of
\* get_card_notification_status.  The stored change time of the card and the
\* greatest created_at string among the card's rows of card_comments are
\* compared; no row, a NULL or a parse failure gives False.
get_card_notification_status(c) ==
    LET due_date_updated_at == card_due[c].updated_at
        rows == {m \in CommentIds :
                    card_comments[m].present /\ card_comments[m].card_id = c}
        comment_timestamp ==
            latest_timestamp([m \in rows |-> card_comments[m].created_at])
    IN /\ card_due[c].present
       /\ truthy(due_date_updated_at)
       /\ rows # {}
       /\ truthy(comment_timestamp)
       /\ dt_after(comment_timestamp, due_date_updated_at)

\* The is_read argument of get_reminders and count_reminders when it is None:
\* no WHERE clause.  The other values are SQLite's 0 and 1.
NoFilter == -1

ReadFilters == {NoFilter, 0, 1}

\* The ids of the rows WHERE is_read = ? selects.
matching(is_read) ==
    {i \in DOMAIN reminders :
        \/ is_read = NoFilter
        \/ is_read = 1 /\ reminders[i].is_read
        \/ is_read = 0 /\ ~reminders[i].is_read}

\* ORDER BY created_at DESC of the rows ids: every order of them in which
\* created_at never increases (SQLite leaves the order of ties open).
newest_first(ids) ==
    {q \in [1 .. Cardinality(ids) -> ids] :
        /\ \A a, b \in DOMAIN q : a # b => q[a] # q[b]
        /\ \A a, b \in DOMAIN q :
              a < b => reminders[q[a]].created_at >= reminders[q[b]].created_at}

\* LIMIT ? OFFSET ? of the sequence q.
page(q, limit, offset) ==
    SubSeq(q, offset + 1,
           IF offset + limit < Len(q) THEN offset + limit ELSE Len(q))

\* A COUNT(*) without the WHERE clause.
count_reminders_all(is_read) == Len(reminders)

\* count_reminders: SELECT COUNT(*) FROM reminders [WHERE is_read = ?]
count_reminders(is_read) == Cardinality(matching(is_read))

\* get_reminders: the lists of rows, by id, the query can return.
get_reminders(limit, offset, is_read) ==
    {page(q, limit, offset) : q \in newest_first(matching(is_read))}

\* ------------------------------------------------------- specifications

Monitor ==
    \/ get_trello_cards
    \/ Sleep
    \/ ReadCard
    \/ NoDueDate
    \/ DueRemoved
    \/ DueSet
    \/ DueChanged
    \/ NameRefresh
    \/ has_comment_after_due_date_change
    \/ add_reminder
    \/ mark_suppressed

\* The monitor alone (python trello.py).
NextMonitor ==
    \/ Tick
    \/ Monitor

\* The monitor and the web process (python run.py).
Next ==
    \/ Tick
    \/ Monitor
    \/ api_mark_read
    \/ update_cards_database

Spec == Init /\ [][Next]_vars

\* The monitor and the web process on a board whose cards are renamed.
SpecWeb == InitWeb /\ [][Next]_vars

SpecBoard == InitBoard /\ [][NextMonitor]_vars

SpecRich == InitRich /\ [][NextMonitor]_vars

\* The monitor alone, on a board whose due dates change their spelling.
SpecDrift == InitDrift /\ [][NextMonitor]_vars

\* The monitor alone, on a database whose calls can fail.
NextFaulty ==
    \/ Tick
    \/ Monitor
    \/ storage_fault

SpecFaulty == InitFaulty /\ [][NextFaulty]_vars

\* The monitor alone on a faulty database, one card, with the scheduling of
\* main's loop: time.sleep returns and the thread goes on running, so a
\* step of the monitor that stays possible is taken.
SpecLive == Init /\ [][NextFaulty]_vars /\ WF_vars(Monitor)

\* python test_trello_connection.py.
NextTests ==
    \/ test_trello_connection
    \/ test_board_access
    \/ test_board_activity

SpecTests == InitTests /\ [][NextTests]_vars

\* ------------------------------------------------------------ properties

\* The step is the monitor's step that leaves the if-chain of check_cards.
LeavesBranch == pc = "branch" /\ pc' # "branch"

\* No comment of card c is stored.
NoStoredComment(c) ==
    \A m \in CommentIds :
        card_comments[m].present => card_comments[m].card_id # c

\* The transition verdict of the specification's table for a card's row of
\* card_due and the due date observed for it.
Verdict(row, observed) ==
    IF ~row.present
    THEN (IF observed # None THEN "Unseen->Set" ELSE "Unchanged")
    ELSE IF row.due_date = None
    THEN (IF observed # None THEN "Unset->Set" ELSE "Unchanged")
    ELSE IF observed = None THEN "Set->Unset"
    ELSE IF observed # row.due_date THEN "Changed"
    ELSE "Unchanged"

\* C1: for the card check_cards is processing, the arm of the if-chain is the
\* one the verdict table gives for (stored due date, observed due date):
\* no row or a row without a due date and a due date observed is "set",
\* a stored due date and none observed is "removed", two different due dates
\* is "changed", equal ones is the arm that stores no due date; every verdict
\* but Unchanged stores the observed due date, and Unchanged appends no
\* reminder and ends the card's processing.
C1_VerdictTable ==
    [][pc = "branch" =>
          LET v == Verdict(card_due[card_id], current_due)
              arm == Classify(stored_due, current_due)
          IN /\ (v \in {"Unseen->Set", "Unset->Set"}) <=> (arm = "set")
             /\ (v = "Set->Unset") <=> (arm = "removed")
             /\ (v = "Changed") <=> (arm = "changed")
             /\ (v = "Unchanged") <=> (arm \in {"none", "same"})
             /\ (LeavesBranch /\ v # "Unchanged") =>
                    /\ card_due'[card_id].present
                    /\ card_due'[card_id].due_date = current_due
             /\ (LeavesBranch /\ v = "Unchanged") =>
                    /\ reminders' = reminders
                    /\ pc' = "loop"]_vars

\* C1's case: a card seen before whose due date was removed is observed with
\* a due date again (Unset->Set).
C1_Witness ==
    /\ pc = "branch"
    /\ card_due[card_id].present
    /\ card_due[card_id].due_date = None
    /\ current_due # None

\* C2: every confirmed transition has produced a ReminderEvent: a card whose
\* row of card_due was written by a transition, and which is not being
\* processed, has a reminder in the ledger whose new_due is the stored due
\* date.
C2_TransitionLogged ==
    \A c \in CardIds :
        (card_due[c].present /\ card_id # c) =>
            \E i \in DOMAIN reminders :
                /\ reminders[i].card_id = c
                /\ reminders[i].new_due = card_due[c].due_date

\* C3: when the processing of a card with no stored due date, no stored
\* comment and a due date observed ends, the change-history lookup having
\* found nothing, the ledger has gained the reminder (old_due null, new_due
\* the observed due date, unread).
C3_FirstSetReminder ==
    [][(/\ LeavesBranch
        /\ stored_due = None
        /\ current_due # None
        /\ NoStoredComment(card_id)
        /\ card_due'[card_id].updated_at.fmt = "naive"
        /\ pc' = "loop") =>
           /\ Len(reminders') = Len(reminders) + 1
           /\ reminders'[Len(reminders')] =
                  [card_id |-> card_id, card_name |-> card_name,
                   old_due |-> None, new_due |-> current_due,
                   created_at |-> now, is_read |-> FALSE]]_vars

\* Timestamp a parses, timestamp b parses, and a spells a later instant.
StrictlyLater(a, b) ==
    /\ a.fmt \in {"Z", "naive"}
    /\ b.fmt \in {"Z", "naive"}
    /\ a.t > b.t

\* Some comment the API returned was created after the change.
SomeCommentAfter(dates, due_changed_at) ==
    \E m \in DOMAIN dates : StrictlyLater(dates[m], due_changed_at)

\* The step ends send_reminder for the card being processed.
EndsSendReminder == pc \in {"add", "mark"} /\ pc' = "loop"

\* C4: when send_reminder ends, the reminder it appended is read exactly when
\* some comment of the card was created strictly after the card's stored
\* change time; with no comment, or none later than the change, it is unread.
C4_ReadIffCommentAfter ==
    [][EndsSendReminder =>
          reminders'[Len(reminders')].is_read =
              SomeCommentAfter(fetched.dates, card_due[card_id].updated_at)]_vars

\* C5: when the change-history lookup of a transition finds nothing, the
\* stored change time is the wall clock's reading, the card's processing does
\* not end before a reminder is appended, and the reminder is appended unread
\* when the card has no comment.
C5_LookupFallback ==
    [][/\ (/\ LeavesBranch
           /\ stored_due # current_due
           /\ card_due'[card_id].updated_at.fmt = "naive") =>
              /\ card_due'[card_id].updated_at \in
                     {Naive(now + off) : off \in world.offsets}
              /\ pc' # "loop"
       /\ (/\ pc = "add"
           /\ pc' # "add"
           /\ ~truthy(trello_change_time)
           /\ DOMAIN fetched.dates = {}) =>
              /\ Len(reminders') = Len(reminders) + 1
              /\ ~reminders'[Len(reminders')].is_read
              /\ pc' = "loop"]_vars

\* The stored change time of the card being processed, or the latest comment
\* timestamp get_card_comments returned for it, does not parse.
ParseFailure ==
    \/ card_due[card_id].updated_at.fmt = "bad"
    \/ \E m \in DOMAIN fetched.dates :
          /\ fetched.dates[m].fmt = "bad"
          /\ \A k \in DOMAIN fetched.dates :
                str_rank(fetched.dates[k]) <= str_rank(fetched.dates[m])

\* C6: when the stored change time or the latest comment timestamp does not
\* parse, the reminder is appended unread and check_cards is back at the head
\* of its loop with the cards that remained to be processed.
C6_ParseFailureDelivers ==
    [][(pc = "add" /\ pc' # "add" /\ ParseFailure) =>
          /\ Len(reminders') = Len(reminders) + 1
          /\ ~reminders'[Len(reminders')].is_read
          /\ pc' = "loop"
          /\ cards' = cards]_vars

\* C6's case: the latest comment of the card being processed has a timestamp
\* that does not parse, and another card of the snapshot is still to come.
C6_Witness ==
    /\ pc = "add"
    /\ fetched.ok
    /\ ParseFailure
    /\ cards # <<>>

\* C7: processing an observation whose due date equals the stored one, on any
\* visit of the card, appends no reminder, leaves the card's stored due date
\* and change time as they were, and ends the card's processing.
C7_UnchangedReplay ==
    [][(LeavesBranch /\ current_due = card_due[card_id].due_date) =>
          /\ reminders' = reminders
          /\ card_due'[card_id].present = card_due[card_id].present
          /\ card_due'[card_id].due_date = card_due[card_id].due_date
          /\ card_due'[card_id].updated_at = card_due[card_id].updated_at
          /\ pc' = "loop"]_vars

\* C7's case: a card with a stored due date and a reminder in the ledger is
\* observed with the same due date.
C7_Witness ==
    /\ pc = "branch"
    /\ card_due[card_id].present
    /\ current_due # None
    /\ current_due = card_due[card_id].due_date
    /\ \E i \in DOMAIN reminders : reminders[i].card_id = card_id

\* The comments of dates and one more, m, created at d.
WithComment(dates, m, d) ==
    [k \in DOMAIN dates \cup {m} |-> IF k = m THEN d ELSE dates[k]]

\* The decision for the card being processed were comment m, created at d,
\* on the card too: TRUE is suppressed, FALSE is delivered.
DecisionWith(m, d) ==
    comment_after(card_due[card_id].updated_at,
                  latest_timestamp(WithComment(fetched.dates, m, d)))

\* The decision for the card being processed has been taken from the
\* comments the API returned, and it is delivered.
Delivered == pc = "add" /\ fetched.ok /\ ~suppress

\* The comments that could be added to the returned ones.
Addable == world.comment_ids \ DOMAIN fetched.dates

\* No returned comment has a timestamp that fails to parse and sorts, as a
\* string, after d.
NoneMasks(d) ==
    \A k \in DOMAIN fetched.dates :
        fetched.dates[k].fmt = "bad" =>
            str_rank(fetched.dates[k]) < str_rank(d)

C9_ReadIsOneWay ==
    [][\A i \in DOMAIN reminders :
          reminders[i].is_read =>
              /\ i \in DOMAIN reminders'
              /\ reminders'[i].is_read]_vars

\* C9's case: the monitor is about to mark a reminder read while the web
\* process has marked one read.
C9_Witness ==
    /\ pc = "mark"
    /\ response.id \in DOMAIN reminders
    /\ reminders[response.id].is_read
    /\ \E i \in DOMAIN reminders : ~reminders[i].is_read

\* C10: marking a reminder read a second time leaves the ledger as the first
\* call left it, for every id, and every answer to a mark-read request
\* reports success.
C10_MarkReadIdempotent ==
    /\ \A id \in ReminderIds :
          set_read(set_read(reminders, id), id) = set_read(reminders, id)
    /\ response # NoResponse => response.success
    /\ (response.id \in DOMAIN reminders /\ reminders[response.id].is_read) =>
          set_read(reminders, response.id) = reminders

\* C10's case: a mark-read request for a reminder of the ledger has been
\* answered, and the reminder is read.
C10_Witness ==
    /\ response.success
    /\ response.id \in DOMAIN reminders
    /\ reminders[response.id].is_read
    /\ Len(reminders) = MaxReminders

\* C11: a mark-read request for an id the ledger has never held is answered
\* with a failure, and the ledger stays as it was.
C11_UnknownIdNotFound ==
    [][(response' # response /\ response'.id \notin DOMAIN reminders) =>
          /\ ~response'.success
          /\ reminders' = reminders]_vars

\* Row r with its read flag cleared.
Unflagged(r) == [r EXCEPT !.is_read = FALSE]

\* C12: in every step, of the monitor or of the web process, every reminder
\* of the ledger stays in it under its id, with its card_id, card_name,
\* old_due, new_due and created_at unchanged.
C12_LedgerAppendOnly ==
    [][/\ Len(reminders') >= Len(reminders)
       /\ \A i \in DOMAIN reminders :
             Unflagged(reminders'[i]) = Unflagged(reminders[i])]_vars

\* C12's case: the ledger is full, its first reminder was logged before the
\* clock moved on and has been marked read, its second is unread.
C12_Witness ==
    /\ Len(reminders) = MaxReminders
    /\ reminders[1].is_read
    /\ ~reminders[MaxReminders].is_read
    /\ reminders[1].created_at < now

\* C13: in every step, the suppressed_notification of every stored comment
\* stays as it was written.
C13_SuppressedWrittenOnce ==
    [][\A m \in CommentIds :
          card_comments[m].present =>
              card_comments'[m].suppressed_notification =
                  card_comments[m].suppressed_notification]_vars

\* The step is get_card_comments storing what the API returned.
Ingests == pc = "comments" /\ pc' = "add" /\ fetched'.ok

\* C14: every comment get_card_comments stores is stored with
\* suppressed_notification true exactly when its created_at is strictly after
\* the change time stored for the card at that moment.
C14_SuppressedAtIngestion ==
    [][Ingests =>
          \A m \in DOMAIN fetched'.dates :
              /\ card_comments'[m].present
              /\ card_comments'[m].created_at = fetched'.dates[m]
              /\ card_comments'[m].suppressed_notification =
                     StrictlyLater(fetched'.dates[m],
                                   card_due[card_id].updated_at)]_vars

\* C14's case: a comment created at the very instant of the change has been
\* ingested.
C14_Witness ==
    /\ pc = "add"
    /\ fetched.ok
    /\ \E m \in DOMAIN fetched.dates :
          /\ parse_naive(fetched.dates[m]).ok
          /\ parse_naive(card_due[card_id].updated_at).ok
          /\ fetched.dates[m].t = card_due[card_id].updated_at.t
          /\ ~card_comments[m].suppressed_notification

\* C15: in a cycle that finds no new transition of a card whose earlier
\* transition is in the ledger, check_cards does not end the card's
\* processing without fetching its comments, so that a comment posted after
\* the change time since that transition is ingested.
C15_LateCommentIngested ==
    [][(/\ LeavesBranch
        /\ card_due[card_id].present
        /\ current_due = card_due[card_id].due_date
        /\ parse_naive(card_due[card_id].updated_at).ok
        /\ \E i \in DOMAIN reminders :
              /\ reminders[i].card_id = card_id
              /\ reminders[i].new_due = current_due) =>
           pc' # "loop"]_vars

\* The step is a change-history lookup that fails or finds nothing, a comment
\* lookup that fails, or the ledger insert that follows a failed comment
\* lookup.
LookupFailure ==
    \/ LeavesBranch /\ card_due'[card_id].updated_at.fmt = "naive"
    \/ pc = "comments" /\ pc' = "add" /\ ~fetched'.ok
    \/ pc = "add" /\ pc' # "add" /\ ~fetched.ok

\* C16: a step in which the change-history lookup or the comment lookup of a
\* card fails stays inside check_cards' loop and leaves the cards that
\* remained to be processed as they were; and in every step a card leaves
\* that list only by being read at the head of the loop.
C16_LookupFailureIsolated ==
    [][/\ LookupFailure =>
             /\ pc' \in {"loop", "comments", "add"}
             /\ cards' = cards
       /\ \/ cards' = cards
          \/ pc = "fetch"
          \/ pc = "loop" /\ pc' = "branch" /\ cards' = Tail(cards)]_vars

\* C16's case: both lookups of a card have failed and another card of the
\* snapshot is still to be processed.
C16_Witness ==
    /\ pc = "add"
    /\ ~fetched.ok
    /\ ~truthy(trello_change_time)
    /\ cards # <<>>

\* C17: check_cards is left, for the sleep and the next cycle, only when
\* every card of the snapshot has been processed: whatever happens while a
\* card is processed, the cards after it are processed in the same cycle.
C17_FaultConfinedToCard ==
    [][(pc # "fetch" /\ pc' = "fetch") => (pc = "loop" /\ cards = <<>>)]_vars

\* The newest reminder of card c in the ledger.
LastReminderOf(c) ==
    {i \in DOMAIN reminders :
        /\ reminders[i].card_id = c
        /\ \A j \in DOMAIN reminders : reminders[j].card_id = c => j <= i}

\* Card c's stored due date was reached by a change from another due date
\* that is not in the ledger: the ledger's newest reminder of c ends at a
\* different due date.
Unlogged(c) ==
    /\ card_due[c].present
    /\ card_due[c].due_date # None
    /\ \E i \in LastReminderOf(c) :
          /\ reminders[i].new_due # None
          /\ reminders[i].new_due # card_due[c].due_date

\* C18: when a later cycle visits a card whose stored due date was reached
\* by a change that is not in the ledger (its processing was interrupted
\* between the update of card_due and the insert into reminders), the visit
\* does not end without a reminder being appended.
C18_InterruptedTransitionLogged ==
    [][(LeavesBranch /\ Unlogged(card_id)) =>
          \/ pc' # "loop"
          \/ Len(reminders') > Len(reminders)]_vars

\* C19: there is no state in which the reminder of a suppressed transition
\* is in the ledger unread: once send_reminder has inserted it, it is read.
C19_SuppressedNeverUnread ==
    (pc = "mark" /\ suppress) => reminders[Len(reminders)].is_read

\* The limits and offsets of a page request.
PageSizes == 0 .. MaxReminders

\* C20: on every state of the ledger, no list get_reminders returns for the
\* unread filter holds a read reminder, whatever the limit and the offset;
\* and for every filter count_reminders is the length of the list
\* get_reminders returns for a limit that covers every row and offset 0.
C20_ListAndCount ==
    /\ \A limit \in PageSizes, offset \in PageSizes :
          \A rows \in get_reminders(limit, offset, 0) :
              \A k \in DOMAIN rows : ~reminders[rows[k]].is_read
    /\ \A is_read \in ReadFilters :
          \A rows \in get_reminders(MaxReminders, 0, is_read) :
              Len(rows) = count_reminders(is_read)

\* C20's case: the ledger holds a read and an unread reminder created in the
\* same second.
C20_Witness ==
    /\ count_reminders(1) > 0
    /\ count_reminders(0) > 0
    /\ \A i, j \in DOMAIN reminders :
          reminders[i].created_at = reminders[j].created_at

\* C21: in every list get_reminders returns, a reminder appended to the
\* ledger later (a greater id) stands before one appended earlier.
C21_NewestFirst ==
    \A rows \in get_reminders(MaxReminders, 0, NoFilter) :
        \A a, b \in DOMAIN rows : a < b => rows[a] > rows[b]

\* A step of the web process: one of its requests is served.
WebStep == api_mark_read \/ update_cards_database

\* C22: a step of the web process leaves card_due and card_comments as they
\* are, and leaves the ledger as it is up to is_read.
C22_WebWritesOnlyReadFlag ==
    [][WebStep =>
          /\ card_due' = card_due
          /\ card_comments' = card_comments
          /\ Len(reminders') = Len(reminders)
          /\ \A i \in DOMAIN reminders :
                Unflagged(reminders'[i]) = Unflagged(reminders[i])]_vars

\* The instant a due-date string names.
due_instant(d) == IF d = "d1b" THEN "d1" ELSE d

\* C23: a card whose observed due date names the instant its stored due date
\* names leaves the if-chain with no transition: the stored due date stays,
\* no reminder is on its way and the ledger is as it was.
C23_SameInstantUnchanged ==
    [][(/\ LeavesBranch
        /\ stored_due # None
        /\ current_due # None
        /\ due_instant(stored_due) = due_instant(current_due))
          => /\ pc' = "loop"
             /\ card_due'[card_id].due_date = card_due[card_id].due_date
             /\ reminders' = reminders]_vars

\* C24: when a card that has a row, and whose observed due date is its stored
\* due date (both None included), leaves the if-chain, the row holds the
\* observed name.
C24_UnchangedRefreshesName ==
    [][(/\ LeavesBranch
        /\ card_due[card_id].present
        /\ current_due = stored_due)
          => card_due'[card_id].name = card_name]_vars

\* C25: a card that leaves the if-chain has a row in card_due.
C25_RecordOnFirstObservation ==
    [][LeavesBranch => card_due'[card_id].present]_vars

\* C26: a row of card_due stays; its due_date and due_date_updated_at change
\* only in the step of check_cards that processes this card with an observed
\* due date other than the stored one; the monitor writes no row but the one
\* of the card it is processing, and appends reminders for that card only; a
\* step of the web process leaves due_date and due_date_updated_at alone.
C26_DueStateFrame ==
    [][/\ \A c \in CardIds :
             /\ card_due[c].present => card_due'[c].present
             /\ (\/ card_due'[c].due_date # card_due[c].due_date
                 \/ card_due'[c].updated_at # card_due[c].updated_at)
                   => /\ pc = "branch"
                      /\ card_id = c
                      /\ current_due # stored_due
                      /\ card_due'[c].due_date = current_due
             /\ card_due'[c] # card_due[c]
                   => (pc = "branch" /\ card_id = c) \/ update_cards_database
       /\ Len(reminders') # Len(reminders)
             => /\ pc = "add"
                /\ Len(reminders') = Len(reminders) + 1
                /\ reminders'[Len(reminders')].card_id = card_id]_vars

\* A cycle is over with no card left to visit, and the row of c1, renamed
\* since its reminder was logged, still holds a due date.
C26_Witness ==
    /\ pc = "loop"
    /\ cards = <<>>
    /\ card_id = ""
    /\ card_due["c1"].present
    /\ card_due["c1"].due_date # None
    /\ reminders # <<>>
    /\ card_due["c1"].name # reminders[Len(reminders)].card_name

\* C27: every row of card_due has a due_date_updated_at that is not NULL.
C27_ChangedAtNeverNull ==
    \A c \in CardIds : card_due[c].present => truthy(card_due[c].updated_at)

\* The lookup found nothing for a logged change of c1; its row holds the
\* local clock's time.
C27_Witness ==
    /\ card_due["c1"].present
    /\ card_due["c1"].updated_at.fmt = "naive"
    /\ pc = "comments"
    /\ ~truthy(trello_change_time)

\* C28: what update_stored_due_date returns after a lookup that found the
\* instant differs from what it returns after the fallback.
C28_SourceFlagReturned ==
    (pc = "comments" /\ truthy(trello_change_time))
        => update_stored_due_date_returns(trello_change_time)
               # update_stored_due_date_returns(NoTs)

\* C29: when send_reminder logs the reminder, the row of the card holds the
\* new due date, and the answer it acts on is the one the comments fetched
\* in this decision give against the stored change time; after a fetch that
\* failed or returned no comment the reminder is appended unread and stays
\* so, whatever card_comments holds.
C29_FreshCommentsDecide ==
    [][(pc = "add" /\ pc' # "add")
          => /\ card_due[card_id].due_date = current_due
             /\ suppress = (/\ fetched.ok
                            /\ comment_after(card_due[card_id].updated_at,
                                             latest_timestamp(fetched.dates)))
             /\ (~fetched.ok \/ DOMAIN fetched.dates = {})
                   => /\ Len(reminders') = Len(reminders) + 1
                      /\ ~reminders'[Len(reminders')].is_read
                      /\ pc' = "loop"]_vars

\* The fetch failed while card_comments holds a comment of the card that is
\* later than the stored change time.
C29_Witness ==
    /\ pc = "add"
    /\ ~fetched.ok
    /\ ~suppress
    /\ \E m \in CommentIds :
          /\ card_comments[m].present
          /\ card_comments[m].card_id = card_id
          /\ StrictlyLater(card_comments[m].created_at,
                           card_due[card_id].updated_at)

\* C30: when the lookup of a logged change finds nothing and the local
\* clock's time is stored as the change time, a comment is judged after it
\* exactly when the comment's UTC time is later than the UTC time of the
\* change.
C30_FallbackOnUtcBase ==
    [][(/\ LeavesBranch
        /\ pc' = "comments"
        /\ ~truthy(trello_change_time'))
          => \A d \in world.dates :
                parse_naive(d).ok
                   => (comment_after(card_due'[card_id].updated_at, d)
                          <=> d.t > now)]_vars

\* C31: a fault in a cycle takes the monitor to the wait before its next
\* cycle, and from that wait the next cycle begins: the cards are fetched
\* and the loop is entered.
C31_FaultRetriesCycle ==
    /\ [][storage_fault => pc' = "fetch"]_vars
    /\ (pc = "fetch") ~> (pc = "loop")

\* A fault has interrupted a change of c1 between the update of card_due and
\* the insert into reminders, and the monitor waits for its next cycle.
C31_Witness ==
    /\ pc = "fetch"
    /\ Unlogged("c1")

\* The three tables.
stores == <<card_due, card_comments, reminders>>

\* C32: a fetch that yields no card leaves the three tables as they are,
\* and the monitor's only step after it is the sleep before the next cycle,
\* which leaves them as they are too.
C32_FailedFetchTouchesNothing ==
    [][/\ (pc = "fetch" /\ pc' = "loop" /\ cards' = <<>>)
             => stores' = stores
       /\ (pc = "loop" /\ cards = <<>> /\ pc' # pc)
             => (pc' = "fetch" /\ stores' = stores)]_vars

\* A fetch has yielded no card while card_due and the ledger hold rows.
C32_Witness ==
    /\ pc = "loop"
    /\ cards = <<>>
    /\ card_id = ""
    /\ card_due["c1"].present
    /\ card_due["c1"].due_date # None
    /\ reminders # <<>>
    /\ \E m \in CommentIds : card_comments[m].present

\* C33: the step of send_reminder that marks the suppressed reminder read
\* changes is_read of no reminder but the one just appended, the last of the
\* ledger.
C33_MarksOnlyAppended ==
    [][(pc = "mark" /\ pc' # "mark")
          => \A i \in DOMAIN reminders :
                reminders'[i].is_read # reminders[i].is_read
                   => i = Len(reminders)]_vars

\* Reminders i and j are successive reminders of card c.
Successive(c, i, j) ==
    /\ i < j
    /\ reminders[i].card_id = c
    /\ reminders[j].card_id = c
    /\ \A k \in DOMAIN reminders : (i < k /\ k < j) => reminders[k].card_id # c

\* C34: between cycles, the newest reminder of a card ends at the card's
\* stored due date, and every reminder of a card starts at the due date its
\* previous reminder ended at.
C34_LedgerChainsToStore ==
    pc = "fetch" =>
        \A c \in CardIds :
            /\ \A i \in LastReminderOf(c) :
                  reminders[i].new_due = card_due[c].due_date
            /\ \A i, j \in DOMAIN reminders :
                  Successive(c, i, j) => reminders[j].old_due = reminders[i].new_due

\* The ingestion of the step stored a comment of the card with
\* suppressed_notification true.
StoredFlagged ==
    \E m \in DOMAIN fetched'.dates : card_comments'[m].suppressed_notification

C36_StatusAgreesWithDecision ==
    pc = "add" => (get_card_notification_status(card_id) <=> suppress)

\* The checks in the order run_all_tests is to call them.
TestOrder ==
    <<"test_trello_connection", "test_board_access", "test_board_activity">>

\* C37: the checks that have been called are the first ones of the order
\* connection, board access, board activity; a run that is over has stopped
\* after the connection check exactly when it failed, after the board-access
\* check exactly when the connection check passed and it failed, and has
\* returned True exactly when all three were called and returned True.
C37_RunAllTests ==
    /\ Len(tests.calls) <= 3
    /\ tests.calls = SubSeq(TestOrder, 1, Len(tests.calls))
    /\ tests.pc = "done" =>
          /\ Len(tests.calls) = 1 <=> ~tests.connection_ok
          /\ Len(tests.calls) = 2 <=> (tests.connection_ok /\ ~tests.board_ok)
          /\ tests.returned <=> /\ Len(tests.calls) = 3
                                /\ tests.connection_ok
                                /\ tests.board_ok
                                /\ tests.activity_ok

\* The run stopped at the board-access check, which failed after the
\* connection check had passed.
C37_Witness ==
    /\ tests.pc = "done"
    /\ tests.connection_ok
    /\ ~tests.board_ok
    /\ tests.calls = <<"test_trello_connection", "test_board_access">>
    /\ ~tests.returned

====
